---------------------------- MODULE Spec2Model ----------------------------
(***************************************************************************)
(* Model of the institutional scanner prototype:                           *)
(*   leader_engine.py  LeaderConfig, LeaderResult, _grade_from_norm,       *)
(*                     _build_leader_result, scan_retest_mode,             *)
(*                     scan_base_breakout_mode, scan_universe_retest/base  *)
(*   data_engine.py    DataEngine.get_daily_ohlcv, to_weekly,              *)
(*                     get_ohlcv_for_universe                              *)
(*   app.py            the "Run Retest Mode Scan" button handler           *)
(*                                                                         *)
(* Numbers.  raw_score and normalization_divisor are floats in the code.   *)
(* Both are kept here in quarters (the integer q stands for q/4), so the   *)
(* default divisor 1.25 is 5 and the quotient raw/divisor is the rational  *)
(* rawQ/divQ.  norm_score, the grade cutoffs, prices and volumes are whole *)
(* numbers.  A missing cell of a DataFrame (NaN) is the value NaN below.   *)
(***************************************************************************)
EXTENDS Integers, Sequences, FiniteSets, TLC

VARIABLES
    pc,            \* position of the handler / function under analysis
    tokens,        \* tickers_text.split(","): the raw comma separated pieces
    tickers,       \* app.py:61  the cleaned ticker list
    fetch_i,       \* data_engine.py:90  position of the fetch loop
    calls,         \* the provider calls made so far: <<[ticker, outcome]>>
    ohlcv_map,     \* data_engine.py:89  out, an insertion ordered dict
    weekly_map,    \* app.py:74 / scan_universe argument
    daily_map,     \* app.py:75 / scan_universe argument
    sector_map,    \* app.py:76 / scan_universe argument
    scan_tickers,  \* the iterable handed to scan_universe_*
    scan_i,        \* leader_engine.py:210/229  position of the scan loop
    mode,          \* which scan_universe_* function runs
    cfg,           \* the LeaderConfig in use
    results,       \* leader_engine.py:209  results of the scan
    sorted_results,\* app.py:94  results after sorted(...)
    message,       \* what st.error / st.info showed, <<>> when nothing
    cards,         \* the cards rendered so far (app.py:98-128)
    raw_score,     \* argument of _build_leader_result (in quarters)
    built,         \* <<r>>: the LeaderResult _build_leader_result returned
    daily_df,      \* argument of to_weekly
    weekly         \* value to_weekly returned

vars == <<pc, tokens, tickers, fetch_i, calls, ohlcv_map, weekly_map, daily_map,
          sector_map, scan_tickers, scan_i, mode, cfg, results, sorted_results,
          message, cards, raw_score, built, daily_df, weekly>>

appVars    == <<tokens, tickers, fetch_i, calls, ohlcv_map, message>>
scanVars   == <<weekly_map, daily_map, sector_map, scan_tickers, scan_i, mode, results>>
renderVars == <<sorted_results, cards>>
buildVars  == <<raw_score, built>>
weeklyVars == <<daily_df, weekly>>

-----------------------------------------------------------------------------
(* Bounds of the model *)

MaxRawQ    == 520   \* largest raw score tried, in quarters (130.0)
MaxNegRawQ == 6     \* raw scores down to -MaxNegRawQ quarters are tried too
MaxDivQ    == 5     \* divisors 0.25 .. MaxDivQ/4 are tried
MaxBars    == 2     \* rows of a daily frame given to to_weekly
MaxDay     == 9     \* daily dates are 0..MaxDay; day 0 is a Thursday
MaxPrice   == 2     \* sample bars are built from the prices 1..MaxPrice
NumTickers == 2     \* size of the ticker universe of scan_universe_*
MaxScanLen == 2     \* length of the ticker sequence given to scan_universe_*
MaxTokens  == 3     \* comma separated pieces of the ticker text area
MaxResults == 3     \* results handed to the rendering block

(* Program constants *)

DefaultDivisorQ   == 5      \* normalization_divisor = 1.25, in quarters
DefaultFullHitMin == 80     \* full_hit_min = 80.0
DefaultStrongMin  == 60     \* strong_min = 60.0
NormCap           == 100    \* min(100.0, ...)

-----------------------------------------------------------------------------
(* Small helpers *)

Range(s) == {s[i] : i \in 1..Len(s)}

Min2(a, b) == IF a <= b THEN a ELSE b

-----------------------------------------------------------------------------
(* leader_engine.py: configuration, grading, result assembly *)

\* LeaderConfig: only the fields the code reads (the scoring knobs are unused).
LeaderConfig(divQ, fh, sm) ==
    [normalization_divisor |-> divQ, full_hit_min |-> fh, strong_min |-> sm]

DefaultConfig == LeaderConfig(DefaultDivisorQ, DefaultFullHitMin, DefaultStrongMin)

\* Grade cutoffs tried: the defaults, equal cutoffs, and cutoffs in the wrong order.
CutoffPairs == { <<DefaultFullHitMin, DefaultStrongMin>>,
                 <<DefaultStrongMin, DefaultStrongMin>>,
                 <<DefaultStrongMin, DefaultFullHitMin>> }

Configs == { LeaderConfig(d, p[1], p[2]) : d \in 1..MaxDivQ, p \in CutoffPairs }

\* Python's round(x) of the float x = n/d (d > 0): nearest integer, ties to even.
PyRound(n, d) ==
    LET q == n \div d          \* floor
        r == n - q * d         \* 0 <= r < d
    IN  IF 2 * r < d THEN q
        ELSE IF 2 * r > d THEN q + 1
        ELSE IF q % 2 = 0 THEN q ELSE q + 1

GradeFromNormStrict(norm_score, c) ==
    IF norm_score > c.full_hit_min THEN "full_hit"
    ELSE IF norm_score > c.strong_min THEN "strong"
    ELSE "watchlist"

_grade_from_norm(norm_score, c) ==
    IF norm_score >= c.full_hit_min THEN "full_hit"
    ELSE IF norm_score >= c.strong_min THEN "strong"
    ELSE "watchlist"

NormalizeUncapped(raw, c) == PyRound(raw, c.normalization_divisor)

Normalize(raw, c) == Min2(NormCap, PyRound(raw, c.normalization_divisor))

_build_leader_result(ticker, m, raw, components, tags, metrics, structure, c) ==
    LET norm  == Normalize(raw, c)
        grade == _grade_from_norm(norm, c)
    IN  [ ticker       |-> ticker,
          mode         |-> m,
          raw_score    |-> raw,
          norm_score   |-> norm,
          grade        |-> grade,
          components   |-> components,
          tags         |-> tags,
          metrics      |-> metrics,
          is_full_hit  |-> (grade = "full_hit"),
          is_strong    |-> (grade = "strong"),
          is_watchlist |-> (grade = "watchlist"),
          structure    |-> structure ]

-----------------------------------------------------------------------------
(* leader_engine.py: the per-ticker scorers and the batch scans *)

\* dict.get(k): <<v>> when the key is present, None otherwise.
None == <<>>

Get(map, k) == IF k \in DOMAIN map THEN <<map[k]>> ELSE None

\* dict.get(k, default)
GetOr(map, k, default) == IF k \in DOMAIN map THEN map[k] ELSE default

\* scan_retest_mode with a scoring that awards points (raw_score 100.0).
ScanRetestScored(ticker, weekly_df, daily_frame, sector_name, c) ==
    _build_leader_result(ticker, "retest", 4 * NormCap, <<>>, <<>>, <<>>, "None", c)

\* components = {}, tags = [], metrics = {}, structure = None, raw_score = 0.0
scan_retest_mode(ticker, weekly_df, daily_frame, sector_name, c) ==
    _build_leader_result(ticker, "retest", 0, <<>>, <<>>, <<>>, "None", c)

scan_base_breakout_mode(ticker, weekly_df, daily_frame, sector_name, c) ==
    _build_leader_result(ticker, "base", 0, <<>>, <<>>, <<>>, "None", c)

\* The skip test with the daily half forgotten.
SkipWeeklyOnly(w, d) == w = None \/ w[1] = <<>>

\* if w is None or d is None or w.empty or d.empty: continue
SkipTicker(w, d) == w = None \/ d = None \/ w[1] = <<>> \/ d[1] = <<>>

\* One pass of the loop body of scan_universe_retest / scan_universe_base.
ScanOne(md, acc, t, wm, dm, sm, c) ==
    LET w == Get(wm, t)
        d == Get(dm, t)
    IN  IF SkipTicker(w, d) THEN acc
        ELSE LET sector == GetOr(sm, t, "Unknown")
                 res == IF md = "retest"
                        THEN scan_retest_mode(t, w[1], d[1], sector, c)
                        ELSE scan_base_breakout_mode(t, w[1], d[1], sector, c)
             IN  Append(acc, res)

\* scan_universe_retest (md = "retest") and scan_universe_base (md = "base").
scan_universe(md, ts, wm, dm, sm, c) ==
    LET F[i \in 0..Len(ts)] ==
            IF i = 0 THEN <<>>
            ELSE ScanOne(md, F[i - 1], ts[i], wm, dm, sm, c)
    IN  F[Len(ts)]

-----------------------------------------------------------------------------
(* data_engine.py: DataFrames and to_weekly *)

(* A DataFrame is the sequence of its rows in index order, a row being         *)
(* [date, o, h, l, c, v] for Open, High, Low, Close, Volume.  The index is a   *)
(* DatetimeIndex as the provider returns it: strictly increasing dates.  A     *)
(* date is a day number; day 0 is a Thursday, so d % 7 = 1 is a Friday.        *)

NaN == -1

Columns == {"o", "h", "l", "c", "v"}

\* DataFrame.empty
IsEmpty(df) == Len(df) = 0

\* The label of the "W-FRI" bin of day d: the Friday on or after d.
WeekEnd(d) == d + (((1 - (d % 7)) + 7) % 7)

\* The non-missing cells of column col, in row order.
Valid(rows, col) ==
    LET F[i \in 0..Len(rows)] ==
            IF i = 0 THEN <<>>
            ELSE IF rows[i][col] = NaN THEN F[i - 1]
            ELSE Append(F[i - 1], rows[i][col])
    IN  F[Len(rows)]

SeqMax(s) == CHOOSE x \in Range(s) : \A y \in Range(s) : y <= x

SeqMin(s) == CHOOSE x \in Range(s) : \A y \in Range(s) : x <= y

SeqSum(s) ==
    LET F[i \in 0..Len(s)] == IF i = 0 THEN 0 ELSE F[i - 1] + s[i]
    IN  F[Len(s)]

\* The aggregations of .agg({...}); pandas' first/last/max/min/sum skip missing
\* cells, first/last/max/min of no cell at all is missing, sum of none is 0.
AggFirst(cells) == IF cells = <<>> THEN NaN ELSE cells[1]

AggLast(cells) == IF cells = <<>> THEN NaN ELSE cells[Len(cells)]

AggMax(cells) == IF cells = <<>> THEN NaN ELSE SeqMax(cells)

AggMin(cells) == IF cells = <<>> THEN NaN ELSE SeqMin(cells)

AggSum(cells) == SeqSum(cells)

AggOpen(rows) == AggFirst(Valid(rows, "o"))

AggHigh(rows) == AggMax(Valid(rows, "h"))

AggLow(rows) == AggMin(Valid(rows, "l"))

CloseIsFirst(rows) == AggFirst(Valid(rows, "c"))

AggClose(rows) == AggLast(Valid(rows, "c"))

AggVolume(rows) == AggSum(Valid(rows, "v"))

RowsOfWeek(df, label) ==
    LET InWeek(r) == WeekEnd(r.date) = label
    IN  SelectSeq(df, InWeek)

\* daily_df.resample("W-FRI").agg({...}): one row per Friday from the first
\* row's week to the last row's week, the weeks without rows included.
ResampleAgg(df) ==
    LET first == WeekEnd(df[1].date)
        last  == WeekEnd(df[Len(df)].date)
        n     == ((last - first) \div 7) + 1
    IN  [ k \in 1..n |->
            LET rows == RowsOfWeek(df, first + 7 * (k - 1))
            IN  [ date |-> first + 7 * (k - 1),
                  o    |-> AggOpen(rows),
                  h    |-> AggHigh(rows),
                  l    |-> AggLow(rows),
                  c    |-> AggClose(rows),
                  v    |-> AggVolume(rows) ] ]

HasNoNaN(r) == \A col \in Columns : r[col] # NaN

\* DataFrame.dropna(): the rows with a missing cell are dropped.
DropNa(df) == SelectSeq(df, HasNoNaN)

\* The weekly frame as the specification describes it: a trailing week whose
\* last bar falls before its Friday is left out.
ToWeeklyDropTrailing(df) ==
    IF IsEmpty(df) THEN df
    ELSE LET w    == DropNa(ResampleAgg(df))
             Done(r) == r.date <= df[Len(df)].date
         IN  SelectSeq(w, Done)

to_weekly(df) ==
    IF IsEmpty(df) THEN df
    ELSE DropNa(ResampleAgg(df))

(* Sample data *)

\* The bar of price p: open p, high 2p+1, low p-1, close 2p, volume 10p.
Bar(p) == [o |-> p, h |-> 2 * p + 1, l |-> p - 1, c |-> 2 * p, v |-> 10 * p]

\* Which cells of a sample bar are missing: none, the open and the close, the
\* volume, the whole row.
Masks == { {}, {"o", "c"}, {"v"}, Columns }

Masked(bar, mask) == [col \in Columns |-> IF col \in mask THEN NaN ELSE bar[col]]

SampleBars == { Masked(Bar(p), m) : p \in 1..MaxPrice, m \in Masks }

Row(d, bar) ==
    [date |-> d, o |-> bar["o"], h |-> bar["h"], l |-> bar["l"], c |-> bar["c"],
     v |-> bar["v"]]

\* The date columns of the daily frames of n rows: strictly increasing dates.
IncreasingDates(n) ==
    {d \in [1..n -> 0..MaxDay] : \A i \in 1..(n - 1) : d[i] < d[i + 1]}

-----------------------------------------------------------------------------
(* data_engine.py: get_daily_ohlcv and get_ohlcv_for_universe; app.py *)

\* What one yf.download call can do: raise, or return a table (empty or not).
GoodFrame == << Row(0, Bar(1)), Row(1, Bar(2)) >>

MissingFrame == << Row(0, Masked(Bar(1), Columns)) >>

ProviderOutcomes ==
    { [kind |-> "raise", df |-> <<>>] }
      \cup { [kind |-> "table", df |-> f] : f \in { <<>>, GoodFrame, MissingFrame } }

\* get_daily_ohlcv: the provider's table, empty as it is, else its five columns.
get_daily_ohlcv(table) ==
    IF IsEmpty(table) THEN table
    ELSE [i \in 1..Len(table) |-> Row(table[i].date, table[i])]

\* except Exception: every error of a fetch is caught.
Catches(kind) == TRUE

\* The empty table is stored like any other.
SkipNever(daily) == FALSE

\* if daily.empty: continue
SkipEmpty(daily) == IsEmpty(daily)

\* A dict keeps insertion order; assigning an existing key keeps its place.
DictKeys(d) == [i \in 1..Len(d) |-> d[i].key]

DictSet(d, k, v) ==
    IF \E i \in 1..Len(d) : d[i].key = k
    THEN [i \in 1..Len(d) |-> IF d[i].key = k THEN [key |-> k, val |-> v] ELSE d[i]]
    ELSE Append(d, [key |-> k, val |-> v])

\* The fetch loop retries the same ticker after an error.
RetryOnError(i, kind) == IF kind = "raise" THEN i ELSE i + 1

\* for t in tickers: the loop moves on whatever the fetch did.
NextFetch(i, kind) == i + 1

\* The pieces the text area can hold between commas, and t.strip().upper().
TokenSet == { " ", " nvda", "NVDA", "AMD" }

StripUpper(tok) ==
    CASE tok = " "     -> ""
      [] tok = " nvda" -> "NVDA"
      [] OTHER         -> tok

\* [t.strip().upper() for t in tickers_text.split(",") if t.strip()]
CleanTickers(toks) ==
    LET F[i \in 0..Len(toks)] ==
            IF i = 0 THEN <<>>
            ELSE IF StripUpper(toks[i]) = "" THEN F[i - 1]
            ELSE Append(F[i - 1], StripUpper(toks[i]))
    IN  F[Len(toks)]

\* build_dummy_sector_map
build_dummy_sector_map(keys) == [t \in Range(keys) |-> "Technology"]

ErrorNoTickers == [kind |-> "error", text |-> "Please enter at least one ticker."]

\* The no-data message shown with st.info instead of st.error.
InfoNoData ==
    [kind |-> "info", text |-> "No OHLCV data fetched. Check tickers or try again."]

ErrorNoData ==
    [kind |-> "error", text |-> "No OHLCV data fetched. Check tickers or try again."]

InfoNoResults ==
    [kind |-> "info",
     text |-> "Scan completed but no results were returned. This is expected while the scoring functions are still stubbed."]

\* sorted(results, key=norm_score) without reverse=True.
SortedAsc(rs) ==
    LET Insert(acc, x) ==
            LET k == Cardinality({i \in 1..Len(acc) : acc[i].norm_score <= x.norm_score})
            IN  SubSeq(acc, 1, k) \o <<x>> \o SubSeq(acc, k + 1, Len(acc))
        F[i \in 0..Len(rs)] == IF i = 0 THEN <<>> ELSE Insert(F[i - 1], rs[i])
    IN  F[Len(rs)]

\* sorted(results, key=lambda r: r.norm_score, reverse=True): a stable sort,
\* equal scores keep the order they came in.
SortedDesc(rs) ==
    LET Insert(acc, x) ==
            LET k == Cardinality({i \in 1..Len(acc) : acc[i].norm_score >= x.norm_score})
            IN  SubSeq(acc, 1, k) \o <<x>> \o SubSeq(acc, k + 1, Len(acc))
        F[i \in 0..Len(rs)] == IF i = 0 THEN <<>> ELSE Insert(F[i - 1], rs[i])
    IN  F[Len(rs)]

\* What one card shows of a result: ticker, grade and score, tags, components
\* and the first five metrics.
Card(res) ==
    [ ticker     |-> res.ticker,
      grade      |-> res.grade,
      norm_score |-> res.norm_score,
      tags       |-> res.tags,
      components |-> res.components,
      metrics    |-> SubSeq(res.metrics, 1, Min2(5, Len(res.metrics))) ]

-----------------------------------------------------------------------------
(* Idle values of the variables a specification does not use *)

IdleApp    == /\ tokens = <<>> /\ tickers = <<>> /\ fetch_i = 1 /\ calls = <<>>
              /\ ohlcv_map = <<>> /\ message = <<>>
IdleScan   == /\ weekly_map = <<>> /\ daily_map = <<>> /\ sector_map = <<>>
              /\ scan_tickers = <<>> /\ scan_i = 1 /\ mode = "retest"
              /\ results = <<>>
IdleRender == sorted_results = <<>> /\ cards = <<>>
IdleBuild  == raw_score = 0 /\ built = <<>>
IdleWeekly == daily_df = <<>> /\ weekly = <<>>

-----------------------------------------------------------------------------
(* SpecBuild: _build_leader_result as a function of raw score and config *)

InitBuild ==
    /\ pc = "build_call"
    /\ raw_score \in (0 - MaxNegRawQ)..MaxRawQ
    /\ cfg \in Configs
    /\ built = <<>>
    /\ IdleApp /\ IdleScan /\ IdleRender /\ IdleWeekly

BuildLeaderResult ==
    /\ pc = "build_call"
    /\ built' = << _build_leader_result("T", "retest", raw_score, <<>>, <<>>, <<>>,
                                        "None", cfg) >>
    /\ pc' = "build_done"
    /\ UNCHANGED <<raw_score, cfg, appVars, scanVars, renderVars, weeklyVars>>

NextBuild == BuildLeaderResult

SpecBuild == InitBuild /\ [][NextBuild]_vars

-----------------------------------------------------------------------------
(* SpecWeekly: to_weekly as a function of the daily frame *)

InitWeekly ==
    /\ pc = "weekly_call"
    /\ \E n \in 0..MaxBars :
         \E dates \in IncreasingDates(n) :
           \E bars \in [1..n -> SampleBars] :
             daily_df = [i \in 1..n |-> Row(dates[i], bars[i])]
    /\ weekly = <<>>
    /\ cfg = DefaultConfig
    /\ IdleApp /\ IdleScan /\ IdleRender /\ IdleBuild

ToWeekly ==
    /\ pc = "weekly_call"
    /\ weekly' = to_weekly(daily_df)
    /\ pc' = "weekly_done"
    /\ UNCHANGED <<daily_df, cfg, appVars, scanVars, renderVars, buildVars>>

NextWeekly == ToWeekly

SpecWeekly == InitWeekly /\ [][NextWeekly]_vars

-----------------------------------------------------------------------------
(* SpecScan: scan_universe_retest / scan_universe_base as functions of the    *)
(* ticker sequence and the mappings                                           *)

TickerNames == << "AMD", "NVDA", "TSLA", "META", "PLTR", "KGC" >>

Universe == { TickerNames[i] : i \in 1..NumTickers }

SeqsUpTo(S, n) == UNION { [1..k -> S] : k \in 0..n }

\* The dicts from some of the tickers to a frame, empty or not.
FrameMaps == UNION { [D -> { <<>>, GoodFrame }] : D \in SUBSET Universe }

SectorMaps == { build_dummy_sector_map(<<>>),
                [t \in Universe |-> "Technology"] }

\* The default configuration, and one whose strong_min a score of 0 reaches.
ScanConfigs == { DefaultConfig, LeaderConfig(DefaultDivisorQ, DefaultFullHitMin, 0) }

InitScan ==
    /\ pc = "scan_call"
    /\ mode \in {"retest", "base"}
    /\ scan_tickers \in SeqsUpTo(Universe, MaxScanLen)
    /\ weekly_map \in FrameMaps
    /\ daily_map \in FrameMaps
    /\ sector_map \in SectorMaps
    /\ cfg \in ScanConfigs
    /\ scan_i = 1
    /\ results = <<>>
    /\ IdleApp /\ IdleRender /\ IdleBuild /\ IdleWeekly

ScanUniverse ==
    /\ pc = "scan_call"
    /\ results' = scan_universe(mode, scan_tickers, weekly_map, daily_map,
                                sector_map, cfg)
    /\ scan_i' = Len(scan_tickers) + 1
    /\ pc' = "scan_returned"
    /\ UNCHANGED <<weekly_map, daily_map, sector_map, scan_tickers, mode, cfg,
                   appVars, renderVars, buildVars, weeklyVars>>

NextScan == ScanUniverse

SpecScan == InitScan /\ [][NextScan]_vars

-----------------------------------------------------------------------------
(* Spec: the "Run Retest Mode Scan" handler of app.py *)

Init ==
    /\ pc = "idle"
    /\ tokens \in UNION { [1..k -> TokenSet] : k \in 1..MaxTokens }
    /\ tickers = <<>>
    /\ fetch_i = 1
    /\ calls = <<>>
    /\ ohlcv_map = <<>>
    /\ message = <<>>
    /\ cfg = DefaultConfig
    /\ IdleScan /\ IdleRender /\ IdleBuild /\ IdleWeekly

\* app.py:60-66  the button is clicked: parse the tickers, stop on blank input.
RunClick ==
    /\ pc = "idle"
    /\ tickers' = CleanTickers(tokens)
    /\ IF tickers' = <<>>
       THEN message' = ErrorNoTickers /\ pc' = "stopped"
       ELSE message' = message /\ pc' = "fetch"
    /\ UNCHANGED <<tokens, fetch_i, calls, ohlcv_map, cfg, scanVars, renderVars,
                   buildVars, weeklyVars>>

\* data_engine.py:90-99  one pass of the fetch loop: one provider call.
FetchOne ==
    /\ pc = "fetch"
    /\ fetch_i <= Len(tickers)
    /\ \E o \in ProviderOutcomes :
         LET t == tickers[fetch_i]
         IN  /\ calls' = Append(calls, [ticker |-> t, kind |-> o.kind,
                                        empty |-> IsEmpty(o.df)])
             /\ IF o.kind = "raise"
                THEN /\ ohlcv_map' = ohlcv_map
                     /\ IF Catches(o.kind)
                        THEN pc' = pc /\ fetch_i' = NextFetch(fetch_i, o.kind)
                        ELSE pc' = "crashed" /\ fetch_i' = fetch_i
                ELSE LET daily == get_daily_ohlcv(o.df)
                     IN  /\ pc' = pc
                         /\ fetch_i' = NextFetch(fetch_i, o.kind)
                         /\ IF SkipEmpty(daily)
                            THEN ohlcv_map' = ohlcv_map
                            ELSE ohlcv_map' =
                                   DictSet(ohlcv_map, t,
                                           [daily |-> daily, weekly |-> to_weekly(daily)])
    /\ UNCHANGED <<tokens, tickers, message, cfg, scanVars, renderVars, buildVars,
                   weeklyVars>>

\* data_engine.py:100, app.py:70-76  the fetch returns; no data is an error.
FetchReturn ==
    /\ pc = "fetch"
    /\ fetch_i > Len(tickers)
    /\ IF ohlcv_map = <<>>
       THEN /\ message' = ErrorNoData
            /\ pc' = "stopped"
            /\ UNCHANGED <<weekly_map, daily_map, sector_map, scan_tickers>>
       ELSE /\ weekly_map' = [t \in Range(DictKeys(ohlcv_map)) |->
                                (CHOOSE e \in Range(ohlcv_map) : e.key = t).val.weekly]
            /\ daily_map' = [t \in Range(DictKeys(ohlcv_map)) |->
                                (CHOOSE e \in Range(ohlcv_map) : e.key = t).val.daily]
            /\ sector_map' = build_dummy_sector_map(DictKeys(ohlcv_map))
            /\ scan_tickers' = DictKeys(ohlcv_map)
            /\ message' = message
            /\ pc' = "scan"
    /\ UNCHANGED <<tokens, tickers, fetch_i, calls, ohlcv_map, cfg, scan_i, mode,
                   results, renderVars, buildVars, weeklyVars>>

\* leader_engine.py:210-217  one pass of the loop of scan_universe_retest.
ScanStep ==
    /\ pc = "scan"
    /\ scan_i <= Len(scan_tickers)
    /\ results' = ScanOne(mode, results, scan_tickers[scan_i], weekly_map,
                          daily_map, sector_map, cfg)
    /\ scan_i' = scan_i + 1
    /\ UNCHANGED <<pc, weekly_map, daily_map, sector_map, scan_tickers, mode, cfg,
                   appVars, renderVars, buildVars, weeklyVars>>

\* leader_engine.py:218  return results
ScanReturn ==
    /\ pc = "scan"
    /\ scan_i > Len(scan_tickers)
    /\ pc' = "scanned"
    /\ UNCHANGED <<cfg, appVars, scanVars, renderVars, buildVars, weeklyVars>>

\* app.py:86-91  no results: an informational message, then stop.
NoResults ==
    /\ pc = "scanned"
    /\ results = <<>>
    /\ message' = InfoNoResults
    /\ pc' = "stopped"
    /\ UNCHANGED <<tokens, tickers, fetch_i, calls, ohlcv_map, cfg, scanVars,
                   renderVars, buildVars, weeklyVars>>

\* app.py:94-96  sort by norm_score, descending.
SortResults ==
    /\ pc = "scanned"
    /\ results # <<>>
    /\ sorted_results' = SortedDesc(results)
    /\ pc' = "render"
    /\ UNCHANGED <<cards, cfg, appVars, scanVars, buildVars, weeklyVars>>

\* app.py:98-128  one pass of the rendering loop: one card.
RenderCard ==
    /\ pc = "render"
    /\ Len(cards) < Len(sorted_results)
    /\ cards' = Append(cards, Card(sorted_results[Len(cards) + 1]))
    /\ UNCHANGED <<pc, sorted_results, cfg, appVars, scanVars, buildVars, weeklyVars>>

RenderDone ==
    /\ pc = "render"
    /\ Len(cards) = Len(sorted_results)
    /\ pc' = "done"
    /\ UNCHANGED <<cfg, appVars, scanVars, renderVars, buildVars, weeklyVars>>

Next ==
    \/ RunClick
    \/ FetchOne
    \/ FetchReturn
    \/ ScanStep
    \/ ScanReturn
    \/ NoResults
    \/ SortResults
    \/ RenderCard
    \/ RenderDone

Spec == Init /\ [][Next]_vars

-----------------------------------------------------------------------------
(* SpecRender: the rendering block of app.py (lines 93-128) as a function of  *)
(* the results it is handed                                                   *)

\* Raw scores 0, 25, 100 and 130: normalised 0, 20, 80 and 100 by default.
SampleRaws == { 0, NormCap, 4 * NormCap, MaxRawQ }

InitRender ==
    /\ pc = "scanned"
    /\ cfg = DefaultConfig
    /\ \E n \in 1..MaxResults :
         \E raws \in [1..n -> SampleRaws] :
           results = [i \in 1..n |->
                        _build_leader_result(TickerNames[i], "retest", raws[i],
                                             <<>>, <<>>, <<>>, "None", cfg)]
    /\ weekly_map = <<>> /\ daily_map = <<>> /\ sector_map = <<>>
    /\ scan_tickers = <<>> /\ scan_i = 1 /\ mode = "retest"
    /\ IdleApp /\ IdleRender /\ IdleBuild /\ IdleWeekly

NextRender ==
    \/ SortResults
    \/ RenderCard
    \/ RenderDone

SpecRender == InitRender /\ [][NextRender]_vars

-----------------------------------------------------------------------------
(* Claims about _build_leader_result (checked under SpecBuild) *)

Grades == {"full_hit", "strong", "watchlist"}

Abs(x) == IF x >= 0 THEN x ELSE 0 - x

\* n is the integer nearest to r/d (d > 0), the even one of the two on a tie.
IsNearestTiesEven(n, r, d) ==
    /\ 2 * Abs(r - n * d) <= d
    /\ (2 * Abs(r - n * d) = d) => (n % 2 = 0)

\* C1: for every raw score r >= 0 and divisor v > 0 the stored norm_score is
\* min(100, round(r / v)): below the cap it is the integer nearest to r/v (ties
\* to even), at the cap r/v rounds to 100 or more; so 0 <= norm_score <= 100.
C1_NormIsCappedRound ==
    (pc = "build_done" /\ raw_score >= 0 /\ cfg.normalization_divisor > 0) =>
        LET n == built[1].norm_score
            d == cfg.normalization_divisor
        IN  /\ built[1].raw_score = raw_score
            /\ 0 <= n /\ n <= NormCap
            /\ (n < NormCap) => IsNearestTiesEven(n, raw_score, d)
            /\ (n = NormCap) => (2 * raw_score >= (2 * NormCap - 1) * d)

\* A raw score far above the cap has been normalised (to exactly 100).
C1_Witness ==
    /\ pc = "build_done"
    /\ cfg = DefaultConfig
    /\ raw_score = MaxRawQ
    /\ built[1].norm_score = NormCap

\* C2: grading is total and exclusive on [0,100]: the grade is full_hit exactly
\* when norm >= full_hit_min, strong exactly when strong_min <= norm <
\* full_hit_min, watchlist exactly when norm is below both; a score at a cutoff
\* gets the higher tier; and exactly one flag is true, the one of the grade.
C2_GradeTotalExclusive ==
    (pc = "build_done" /\ built[1].norm_score \in 0..NormCap) =>
        LET r  == built[1]
            n  == r.norm_score
            fh == cfg.full_hit_min
            sm == cfg.strong_min
        IN  /\ r.grade \in Grades
            /\ (r.grade = "full_hit")  <=> (n >= fh)
            /\ (r.grade = "strong")    <=> (n < fh /\ n >= sm)
            /\ (r.grade = "watchlist") <=> (n < fh /\ n < sm)
            /\ (n = fh) => (r.grade = "full_hit")
            /\ (n = sm) => (r.grade # "watchlist")
            /\ (n = sm /\ sm < fh) => (r.grade = "strong")
            /\ r.is_full_hit  <=> (r.grade = "full_hit")
            /\ r.is_strong    <=> (r.grade = "strong")
            /\ r.is_watchlist <=> (r.grade = "watchlist")
            /\ Cardinality({f \in {"is_full_hit", "is_strong", "is_watchlist"} : r[f]}) = 1

\* raw 100.0 / 1.25 = 80: exactly at full_hit_min, graded full_hit.
C2_Witness ==
    /\ pc = "build_done"
    /\ cfg = DefaultConfig
    /\ raw_score = 4 * NormCap
    /\ built[1].norm_score = cfg.full_hit_min
    /\ built[1].grade = "full_hit"
    /\ built[1].is_full_hit /\ ~built[1].is_strong /\ ~built[1].is_watchlist

-----------------------------------------------------------------------------
(* Claims about to_weekly (checked under SpecWeekly) *)

\* The rows of the daily frame that fall in the week ending on Friday `label`.
WeekIdx(label) == {i \in 1..Len(daily_df) : WeekEnd(daily_df[i].date) = label}

WeekLabels == {WeekEnd(daily_df[i].date) : i \in 1..Len(daily_df)}

WeeklyBars(label) == {j \in 1..Len(weekly) : weekly[j].date = label}

\* The rows of the week that have a value in column col.
Present(label, col) == {i \in WeekIdx(label) : daily_df[i][col] # NaN}

SetSum(S, col) ==
    LET F[T \in SUBSET S] ==
            IF T = {} THEN 0
            ELSE LET i == CHOOSE x \in T : TRUE
                 IN  daily_df[i][col] + F[T \ {i}]
    IN  F[S]

\* The week has a value to aggregate in each of open, high, low and close.
Aggregable(label) == \A col \in {"o", "h", "l", "c"} : Present(label, col) # {}

\* The weekly bar w aggregates the non-missing cells of the week: first open,
\* highest high, lowest low, last close, summed volume.
AggregatesWeek(w, label) ==
    /\ \E i \in Present(label, "o") :
          /\ w.o = daily_df[i].o
          /\ \A k \in Present(label, "o") : i <= k
    /\ \E i \in Present(label, "c") :
          /\ w.c = daily_df[i].c
          /\ \A k \in Present(label, "c") : k <= i
    /\ \E i \in Present(label, "h") :
          /\ w.h = daily_df[i].h
          /\ \A k \in Present(label, "h") : daily_df[k].h <= w.h
    /\ \E i \in Present(label, "l") :
          /\ w.l = daily_df[i].l
          /\ \A k \in Present(label, "l") : w.l <= daily_df[k].l
    /\ w.v = SetSum(Present(label, "v"), "v")

\* A row that holds a value at all (a wholly missing row is no daily bar).
IsBar(r) == \E col \in Columns : r[col] # NaN

BarIdx(label) == {i \in WeekIdx(label) : IsBar(daily_df[i])}

\* The weekly bar w has the open of the week's first daily bar and the close of
\* its last; high, low and volume are the max, min and sum over the week.
AggregatesAllBars(w, label) ==
    LET I == BarIdx(label)
    IN  /\ \E i \in I : (\A k \in I : i <= k) /\ w.o = daily_df[i].o
        /\ \E i \in I : (\A k \in I : k <= i) /\ w.c = daily_df[i].c
        /\ \A k \in Present(label, "h") : daily_df[k].h <= w.h
        /\ \A k \in Present(label, "l") : w.l <= daily_df[k].l
        /\ w.v = SetSum(Present(label, "v"), "v")

\* C5 as claimed: an empty daily series yields an empty weekly series, and every
\* Friday-ending week that has daily bars has a weekly bar whose open is the
\* open of the week's first daily bar, close the close of its last, high / low
\* the max / min and volume the sum over the week.
C5_AsClaimed ==
    (pc = "weekly_done") =>
        /\ IsEmpty(daily_df) => IsEmpty(weekly)
        /\ \A label \in WeekLabels :
              (BarIdx(label) # {}) =>
                  \E j \in WeeklyBars(label) : AggregatesAllBars(weekly[j], label)

\* C5 amended: an empty daily series yields an empty weekly series; the weekly
\* bars are in date order, at most one per Friday; a week has a weekly bar
\* exactly when it has a non-missing open, high, low and close among its daily
\* bars, and that bar's open is the first non-missing open of the week, its
\* close the last non-missing close, its high / low the max / min of the
\* non-missing highs / lows and its volume the sum of the non-missing volumes.
C5_WeeklyAggregates ==
    (pc = "weekly_done") =>
        /\ IsEmpty(daily_df) => IsEmpty(weekly)
        /\ \A j \in 1..(Len(weekly) - 1) : weekly[j].date < weekly[j + 1].date
        /\ \A j \in 1..Len(weekly) :
              /\ weekly[j].date \in WeekLabels
              /\ Aggregable(weekly[j].date)
        /\ \A label \in WeekLabels :
              Aggregable(label) =>
                  \E j \in WeeklyBars(label) : AggregatesWeek(weekly[j], label)

\* Two bars in one week, the first with its open and close missing: the weekly
\* bar takes open and close from the second.
C5_Witness ==
    /\ pc = "weekly_done"
    /\ Len(daily_df) = 2
    /\ WeekEnd(daily_df[1].date) = WeekEnd(daily_df[2].date)
    /\ daily_df[1].o = NaN /\ daily_df[1].h # NaN
    /\ daily_df[2].o # NaN /\ daily_df[2].c # NaN
    /\ daily_df[1].h > daily_df[2].h
    /\ Len(weekly) = 1
    /\ weekly[1].o = daily_df[2].o
    /\ weekly[1].h = daily_df[1].h

LastDate == daily_df[Len(daily_df)].date

\* The last daily bar falls before the Friday that ends its week.
TrailingWeekIncomplete == ~IsEmpty(daily_df) /\ LastDate < WeekEnd(LastDate)

\* C6 as claimed: when the last daily bar falls before the Friday that ends its
\* week, the weekly output has no bar for that week.
C6_AsClaimed ==
    (pc = "weekly_done" /\ TrailingWeekIncomplete) =>
        WeeklyBars(WeekEnd(LastDate)) = {}

\* C6 amended: an incomplete trailing week is kept like any other week: when
\* the last daily bar falls before the Friday that ends its week and the week
\* has a non-missing open, high, low and close, the last weekly bar is the bar
\* of that week, dated with the Friday after the last daily bar.
C6_TrailingWeekKept ==
    (pc = "weekly_done" /\ TrailingWeekIncomplete /\ Aggregable(WeekEnd(LastDate))) =>
        /\ ~IsEmpty(weekly)
        /\ weekly[Len(weekly)].date = WeekEnd(LastDate)
        /\ weekly[Len(weekly)].date > LastDate

\* A series ending on a Monday with a complete bar: that week gets a weekly bar.
C6_Witness ==
    /\ pc = "weekly_done"
    /\ Len(daily_df) = 2
    /\ LastDate % 7 = 4
    /\ HasNoNaN(daily_df[2])
    /\ WeekEnd(daily_df[1].date) < WeekEnd(LastDate)
    /\ Len(weekly) = 2
    /\ weekly[2].date = LastDate + 4
    /\ weekly[2].c = daily_df[2].c

-----------------------------------------------------------------------------
(* Claims about scan_universe_retest / scan_universe_base (under SpecScan) *)

\* The ticker is in both mappings, with a non-empty weekly and daily series.
Eligible(t) ==
    /\ t \in DOMAIN weekly_map /\ t \in DOMAIN daily_map
    /\ Len(weekly_map[t]) > 0 /\ Len(daily_map[t]) > 0

\* C3: the batch scan returns (it has no raising step) exactly one result per
\* input ticker that is in both mappings with non-empty series, in input
\* order, and omits every other ticker.
C3_ScanOmitsIneligible ==
    (pc = "scan_returned") =>
        LET elig == SelectSeq(scan_tickers, Eligible)
        IN  /\ Len(results) = Len(elig)
            /\ \A i \in 1..Len(results) :
                  /\ results[i].ticker = elig[i]
                  /\ results[i].mode = mode
            /\ \A t \in Range(scan_tickers) :
                  ~Eligible(t) => \A i \in 1..Len(results) : results[i].ticker # t

\* A scan of two tickers, the first with an empty daily series, the second
\* eligible: one result, for the second.
C3_Witness ==
    /\ pc = "scan_returned"
    /\ Len(scan_tickers) = 2
    /\ scan_tickers[1] \in DOMAIN daily_map /\ scan_tickers[1] \in DOMAIN weekly_map
    /\ daily_map[scan_tickers[1]] = <<>> /\ weekly_map[scan_tickers[1]] # <<>>
    /\ Eligible(scan_tickers[2])
    /\ Len(results) = 1
    /\ results[1].ticker = scan_tickers[2]

\* C10: with the default divisor and cutoffs every result of a scan has
\* raw_score 0, norm_score 0 and the grade watchlist, in both modes.
C10_StubScoresZero ==
    (pc = "scan_returned" /\ cfg = DefaultConfig) =>
        \A i \in 1..Len(results) :
            /\ results[i].raw_score = 0
            /\ results[i].norm_score = 0
            /\ results[i].grade = "watchlist"
            /\ results[i].is_watchlist /\ ~results[i].is_strong /\ ~results[i].is_full_hit

\* A retest scan under the default configuration that scored two tickers.
C10_Witness ==
    /\ pc = "scan_returned"
    /\ cfg = DefaultConfig
    /\ mode = "retest"
    /\ Len(results) = 2
    /\ results[1].grade = "watchlist" /\ results[2].raw_score = 0

-----------------------------------------------------------------------------
(* Claims about the scan handler (under Spec) *)

\* The tickers some provider call returned a non-empty table for.
Fetched == { calls[i].ticker : i \in { k \in 1..Len(calls) :
                                         calls[k].kind = "table" /\ ~calls[k].empty } }

\* The tickers none of whose provider calls returned a non-empty table.
NotFetched == { calls[i].ticker : i \in 1..Len(calls) } \ Fetched

\* C4: partial success: the fetch never fails as a whole, and the mapping it
\* builds holds exactly the tickers a fetch returned a non-empty table for; a
\* ticker whose fetch raised or came back empty has no entry.
C4_PartialSuccess ==
    /\ pc # "crashed"
    /\ Range(DictKeys(ohlcv_map)) = Fetched
    /\ \A t \in NotFetched : \A i \in 1..Len(ohlcv_map) : ohlcv_map[i].key # t
    /\ \A i \in 1..Len(ohlcv_map) : ~IsEmpty(ohlcv_map[i].val.daily)

\* Three tickers fetched: one raised, one came back empty, one succeeded; the
\* mapping holds the third only.
C4_Witness ==
    /\ pc = "scan"
    /\ Len(calls) = 3
    /\ calls[1].kind = "raise"
    /\ calls[2].kind = "table" /\ calls[2].empty
    /\ calls[3].kind = "table" /\ ~calls[3].empty
    /\ calls[3].ticker # calls[1].ticker /\ calls[3].ticker # calls[2].ticker
    /\ DictKeys(ohlcv_map) = << calls[3].ticker >>

Scoring == scan_i > 1 \/ results # <<>> \/ pc \in {"scanned", "render", "done"}

\* C7: the k-th provider call is for the k-th input ticker (one call per
\* ticker, in order, none repeated after a failure), the loop is one call
\* ahead of the calls made, and no ticker is scored before every ticker has
\* been fetched.
C7_SerialFetchThenScore ==
    /\ Len(calls) <= Len(tickers)
    /\ \A k \in 1..Len(calls) : calls[k].ticker = tickers[k]
    /\ (pc = "fetch") => fetch_i = Len(calls) + 1
    /\ (pc \in {"scan", "scanned", "render", "done"}) => Len(calls) = Len(tickers)
    /\ (pc = "stopped" /\ tickers # <<>>) => Len(calls) = Len(tickers)
    /\ Scoring => (Len(calls) = Len(tickers) /\ pc # "fetch")

\* Two tickers, the first fetch raised, the second succeeded, and the scan has
\* scored its first ticker: two calls in all.
C7_Witness ==
    /\ pc = "scan"
    /\ Len(tickers) = 2 /\ tickers[1] # tickers[2]
    /\ Len(calls) = 2
    /\ calls[1].kind = "raise" /\ calls[2].kind = "table"
    /\ Len(results) = 1

\* C9 as claimed: a scan of at least one ticker that ends without results
\* shows an informational message, never an error.
C9_AsClaimed ==
    (pc = "stopped" /\ tickers # <<>>) => (results = <<>> /\ message.kind = "info")

\* C9 amended: a scan of at least one ticker that ends without results shows
\* an informational message when data was fetched for some ticker but the scan
\* returned nothing, and the error "No OHLCV data fetched" when no ticker
\* yielded data.
C9_EmptyResultMessage ==
    (pc = "stopped" /\ tickers # <<>>) =>
        /\ results = <<>>
        /\ (ohlcv_map = <<>>) => (message.kind = "error" /\ message = ErrorNoData)
        /\ (ohlcv_map # <<>>) => (message.kind = "info" /\ message = InfoNoResults)

\* Data was fetched (a table of missing rows), the scan skipped the ticker for
\* its empty weekly series, and the informational message is shown.
C9_Witness ==
    /\ pc = "stopped"
    /\ tickers # <<>>
    /\ ohlcv_map # <<>>
    /\ results = <<>>
    /\ message.kind = "info"

-----------------------------------------------------------------------------
(* Claims about the rendering block (under SpecRender) *)

Count(x, s) == Cardinality({i \in 1..Len(s) : s[i] = x})

CardsOf(rs) == [i \in 1..Len(rs) |-> Card(rs[i])]

IsPermutation(a, b) ==
    /\ Len(a) = Len(b)
    /\ \A x \in Range(a) \cup Range(b) : Count(x, a) = Count(x, b)

\* C8: one card per scan result: the cards rendered are a permutation of the
\* results' cards, each card's norm_score at least that of the card after it.
C8_CardsSortedPermutation ==
    /\ Len(cards) <= Len(results)
    /\ \A i \in 1..(Len(cards) - 1) : cards[i].norm_score >= cards[i + 1].norm_score
    /\ (pc = "done") => IsPermutation(cards, CardsOf(results))

\* Three results in ascending order of score were rendered in the reverse order.
C8_Witness ==
    /\ pc = "done"
    /\ Len(results) = 3
    /\ results[1].norm_score < results[2].norm_score
    /\ results[2].norm_score < results[3].norm_score
    /\ Len(cards) = 3
    /\ cards[1].ticker = results[3].ticker
    /\ cards[3].ticker = results[1].ticker

=============================================================================
